---- MODULE Spec2Model ----
(***************************************************************************)
(* Narrative-graph consistency engine and simulation engine of the AI game *)
(* narrative generator.                                                    *)
(*                                                                         *)
(* The persisted records of one project (story arcs, quests with their     *)
(* embedded prerequisite / outcome / condition sub-records, dialogues) are *)
(* the state; ValidationService.validateStoryGraph and                     *)
(* ValidationService.validateQuest are modelled as operators translated    *)
(* from src/api/src/modules/validation/validation.service.ts and applied   *)
(* by the actions ValidateStoryGraph and ValidateQuest.                    *)
(*                                                                         *)
(* JavaScript Maps are modelled by a key sequence (insertion order) plus a *)
(* function; arrays by sequences; a thrown error by status "threw".        *)
(* Outcome probabilities are exact decimals counted in thousandths.        *)
(* The simulation engine (SimulationService, batch runs of the             *)
(* SimulationController) follows the validation part, under SpecSim and    *)
(* SpecBatch.                                                              *)
(***************************************************************************)
EXTENDS Integers, Sequences, FiniteSets, TLC

VARIABLES storyArcs, quests, dialogues, result, questResult, heap, sims

vars == <<storyArcs, quests, dialogues, result, questResult, heap, sims>>

(***************************************************************************)
(* Bounds of the explored input space.                                     *)
(***************************************************************************)
\* records of one project: nodes plus relationship records
MaxSize == 6
\* conditions attached to the prerequisite and the outcome (SpecCond)
MaxConds == 1
\* outcomes of the quest under quest-local validation (SpecQuest)
MaxOutcomes == 2

(***************************************************************************)
(* Values.                                                                 *)
(***************************************************************************)
\* a nullable uuid column that is not set
NULL == 0
\* a JavaScript property that is absent
UNDEFINED == -1000000

ArcId(i) == 100 + i
QuestId(i) == 200 + i
DialogueId(i) == 300 + i
\* a well-formed uuid that is the id of no record of the project
MissingId == 999

NoResult == [status |-> "none"]

\* generic sequence helpers (Array.prototype.filter / reduce / length)
RECURSIVE SelectErrors(_, _, _)
SelectErrors(errs, field, val) ==
  IF errs = <<>> THEN <<>>
  ELSE LET rest == SelectErrors(Tail(errs), field, val)
       IN IF Head(errs)[field] = val THEN <<Head(errs)>> \o rest ELSE rest

CountErrors(errs, field, val) == Len(SelectErrors(errs, field, val))

RECURSIVE SumLen(_, _)
SumLen(s, field) ==
  IF s = <<>> THEN 0 ELSE Len(Head(s)[field]) + SumLen(Tail(s), field)

Range(s) == {s[i] : i \in DOMAIN s}

(***************************************************************************)
(* buildGraph (validation.service.ts 169-267) and addEdgeToNodes (269-279) *)
(***************************************************************************)
NewNode(id, type, data) ==
  [id |-> id, type |-> type, data |-> data, incoming |-> <<>>, outgoing |-> <<>>]

\* Map.prototype.set on the node map: a new key is appended to the iteration
\* order, an existing key keeps its position and gets the new value
NodesSet(g, id, node) ==
  [g EXCEPT !.order = IF id \in Range(g.order) THEN g.order ELSE Append(g.order, id),
            !.nodes = [k \in DOMAIN g.nodes \cup {id} |->
                         IF k = id THEN node ELSE g.nodes[k]]]

\* Map.prototype.set on the edge map, keyed by `${source}_to_${target}`
EdgesSet(g, edge) ==
  LET key == <<edge.source, edge.target>>
  IN [g EXCEPT !.edgeOrder = IF key \in Range(g.edgeOrder) THEN g.edgeOrder
                             ELSE Append(g.edgeOrder, key),
               !.edges = [k \in DOMAIN g.edges \cup {key} |->
                            IF k = key THEN edge ELSE g.edges[k]]]

\* addEdgeToNodes without the `if (sourceNode)` guard: pushing to the outgoing
\* list of a node that is not in the map throws
addEdgeToNodes_unguarded(g, sourceId, targetId) ==
  IF sourceId \notin DOMAIN g.nodes THEN [g EXCEPT !.threw = TRUE]
  ELSE LET g1 == [g EXCEPT !.nodes[sourceId].outgoing = Append(@, targetId)]
       IN IF targetId \in DOMAIN g1.nodes
          THEN [g1 EXCEPT !.nodes[targetId].incoming = Append(@, sourceId)]
          ELSE g1

addEdgeToNodes(g, sourceId, targetId) ==
  LET g1 == IF sourceId \in DOMAIN g.nodes
            THEN [g EXCEPT !.nodes[sourceId].outgoing = Append(@, targetId)]
            ELSE g
  IN IF targetId \in DOMAIN g1.nodes
     THEN [g1 EXCEPT !.nodes[targetId].incoming = Append(@, sourceId)]
     ELSE g1

EmptyGraph ==
  [order |-> <<>>, nodes |-> <<>>, edgeOrder |-> <<>>, edges |-> <<>>, threw |-> FALSE]

RECURSIVE AddNodes(_, _, _)
AddNodes(g, recs, type) ==
  IF recs = <<>> THEN g
  ELSE AddNodes(NodesSet(g, Head(recs).id, NewNode(Head(recs).id, type, Head(recs))),
                Tail(recs), type)

RECURSIVE AddPrereqEdges(_, _, _)
\* the target's incoming list written only when the prerequisite node exists
AddPrereqEdges_existingOnly(g, quest, prereqs) ==
  IF prereqs = <<>> THEN g
  ELSE LET p == Head(prereqs)
           e == [source |-> p.id, target |-> quest.id, type |-> "prerequisite"]
       IN AddPrereqEdges(IF p.id \in DOMAIN g.nodes
                           THEN addEdgeToNodes(EdgesSet(g, e), p.id, quest.id)
                           ELSE EdgesSet(g, e),
                         quest, Tail(prereqs))

AddPrereqEdges(g, quest, prereqs) ==
  IF prereqs = <<>> THEN g
  ELSE LET p == Head(prereqs)
           e == [source |-> p.id, target |-> quest.id, type |-> "prerequisite"]
       IN AddPrereqEdges(addEdgeToNodes(EdgesSet(g, e), p.id, quest.id),
                         quest, Tail(prereqs))

RECURSIVE AddOutcomeEdges(_, _, _)
AddOutcomeEdges(g, quest, outcomes) ==
  IF outcomes = <<>> THEN g
  ELSE LET o == Head(outcomes)
           e == [source |-> quest.id, target |-> o.nextQuestId, type |-> "outcome"]
           g1 == IF o.nextQuestId # NULL
                 THEN addEdgeToNodes(EdgesSet(g, e), quest.id, o.nextQuestId)
                 ELSE g
       IN AddOutcomeEdges(g1, quest, Tail(outcomes))

RECURSIVE AddQuestEdges(_, _)
\* the belongs_to connection entered from the story arc to the quest
AddQuestEdges_arcToQuest(g, qs) ==
  IF qs = <<>> THEN g
  ELSE LET quest == Head(qs)
           e == [source |-> quest.id, target |-> quest.storyArcId, type |-> "belongs_to"]
           g1 == IF quest.storyArcId # NULL
                 THEN addEdgeToNodes(EdgesSet(g, e), quest.storyArcId, quest.id)
                 ELSE g
           g2 == AddPrereqEdges(g1, quest, quest.prerequisites)
           g3 == AddOutcomeEdges(g2, quest, quest.outcomes)
       IN AddQuestEdges(g3, Tail(qs))

AddQuestEdges(g, qs) ==
  IF qs = <<>> THEN g
  ELSE LET quest == Head(qs)
           e == [source |-> quest.id, target |-> quest.storyArcId, type |-> "belongs_to"]
           g1 == IF quest.storyArcId # NULL
                 THEN addEdgeToNodes(EdgesSet(g, e), quest.id, quest.storyArcId)
                 ELSE g
           g2 == AddPrereqEdges(g1, quest, quest.prerequisites)
           g3 == AddOutcomeEdges(g2, quest, quest.outcomes)
       IN AddQuestEdges(g3, Tail(qs))

RECURSIVE AddDialogueEdges(_, _)
AddDialogueEdges(g, ds) ==
  IF ds = <<>> THEN g
  ELSE LET d == Head(ds)
           e == [source |-> d.id, target |-> d.questId, type |-> "belongs_to"]
           g1 == IF d.questId # NULL
                 THEN addEdgeToNodes(EdgesSet(g, e), d.id, d.questId)
                 ELSE g
       IN AddDialogueEdges(g1, Tail(ds))

buildGraph(arcs, qs, ds) ==
  LET g1 == AddNodes(EmptyGraph, arcs, "story_arc")
      g2 == AddNodes(g1, qs, "quest")
      g3 == AddNodes(g2, ds, "dialogue")
      g4 == AddQuestEdges(g3, qs)
  IN AddDialogueEdges(g4, ds)

(***************************************************************************)
(* The check passes over the graph (validation.service.ts 284-525).        *)
(***************************************************************************)
Finding(type, nodeId, message, severity) ==
  [type |-> type, nodeId |-> nodeId, message |-> message, severity |-> severity]

RECURSIVE OrphanLoop(_, _)
\* the orphan test with || in place of &&
OrphanLoop_either(g, ids) ==
  IF ids = <<>> THEN <<>>
  ELSE LET node == g.nodes[Head(ids)]
       IN (IF Len(node.incoming) = 0 \/ Len(node.outgoing) = 0
           THEN <<Finding("orphan", Head(ids), "has no connections", "warning")>>
           ELSE <<>>) \o OrphanLoop(g, Tail(ids))

OrphanLoop(g, ids) ==
  IF ids = <<>> THEN <<>>
  ELSE LET node == g.nodes[Head(ids)]
       IN (IF Len(node.incoming) = 0 /\ Len(node.outgoing) = 0
           THEN <<Finding("orphan", Head(ids), "has no connections", "warning")>>
           ELSE <<>>) \o OrphanLoop(g, Tail(ids))

detectOrphanNodes(g) == OrphanLoop(g, g.order)

\* the closure dfs of detectUnreachableNodes; the visited set is returned
RECURSIVE dfs(_, _, _), dfsEach(_, _, _)
dfs(g, visited, nodeId) ==
  IF nodeId \in visited THEN visited
  ELSE IF nodeId \in DOMAIN g.nodes
       THEN dfsEach(g, visited \cup {nodeId}, g.nodes[nodeId].outgoing)
       ELSE visited \cup {nodeId}

dfsEach(g, visited, ids) ==
  IF ids = <<>> THEN visited
  ELSE dfsEach(g, dfs(g, visited, Head(ids)), Tail(ids))

RECURSIVE StartNodes(_, _)
\* every story arc taken as a start node, its incoming list ignored
StartNodes_anyArc(g, ids) ==
  IF ids = <<>> THEN <<>>
  ELSE LET node == g.nodes[Head(ids)]
       IN (IF node.type = "story_arc" THEN <<node.id>> ELSE <<>>)
          \o StartNodes(g, Tail(ids))

StartNodes(g, ids) ==
  IF ids = <<>> THEN <<>>
  ELSE LET node == g.nodes[Head(ids)]
       IN (IF node.type = "story_arc" /\ Len(node.incoming) = 0
           THEN <<node.id>> ELSE <<>>) \o StartNodes(g, Tail(ids))

RECURSIVE UnreachableLoop(_, _, _)
UnreachableLoop(g, visited, ids) ==
  IF ids = <<>> THEN <<>>
  ELSE (IF Head(ids) \notin visited
        THEN <<Finding("unreachable", Head(ids), "is unreachable from any start point", "error")>>
        ELSE <<>>) \o UnreachableLoop(g, visited, Tail(ids))

detectUnreachableNodes(g) ==
  UnreachableLoop(g, dfsEach(g, {}, StartNodes(g, g.order)), g.order)

RECURSIVE BrokenChainLoop(_, _)
BrokenChainLoop(g, ids) ==
  IF ids = <<>> THEN <<>>
  ELSE LET node == g.nodes[Head(ids)]
       IN (IF /\ node.type = "quest"
              /\ Len(node.incoming) = 0
              /\ Len(node.data.prerequisites) > 0
           THEN <<Finding("broken_chain", Head(ids),
                          "has prerequisites but no incoming connections", "error")>>
           ELSE <<>>) \o BrokenChainLoop(g, Tail(ids))

detectBrokenChains(g) == BrokenChainLoop(g, g.order)

\* the closure hasCycle of detectCircularDependencies; st carries the two
\* sets visited and recursionStack, calls counts the invocations
RECURSIVE hasCycle(_, _, _), hasCycleEach(_, _, _), hasCycleAfter(_, _, _)
\* the visited test placed before the recursionStack test
hasCycle_visitedFirst(g, st, nodeId) ==
  LET st0 == [st EXCEPT !.calls = @ + 1]
  IN IF nodeId \in st.visited THEN [st0 EXCEPT !.found = FALSE]
     ELSE IF nodeId \in st.recursionStack THEN [st0 EXCEPT !.found = TRUE]
     ELSE LET st1 == [st0 EXCEPT !.visited = @ \cup {nodeId},
                                 !.recursionStack = @ \cup {nodeId}]
              out == IF nodeId \in DOMAIN g.nodes THEN g.nodes[nodeId].outgoing ELSE <<>>
          IN hasCycleEach(g, st1, <<nodeId, out>>)

hasCycle(g, st, nodeId) ==
  LET st0 == [st EXCEPT !.calls = @ + 1]
  IN IF nodeId \in st.recursionStack THEN [st0 EXCEPT !.found = TRUE]
     ELSE IF nodeId \in st.visited THEN [st0 EXCEPT !.found = FALSE]
     ELSE LET st1 == [st0 EXCEPT !.visited = @ \cup {nodeId},
                                 !.recursionStack = @ \cup {nodeId}]
              out == IF nodeId \in DOMAIN g.nodes THEN g.nodes[nodeId].outgoing ELSE <<>>
          IN hasCycleEach(g, st1, <<nodeId, out>>)

\* the for-of loop over node.outgoing, then the code after it
hasCycleEach(g, st, frame) ==
  IF frame[2] = <<>>
  THEN [st EXCEPT !.recursionStack = @ \ {frame[1]}, !.found = FALSE]
  ELSE hasCycleAfter(g, hasCycle(g, st, Head(frame[2])), frame)

hasCycleAfter(g, r, frame) ==
  IF r.found THEN r ELSE hasCycleEach(g, r, <<frame[1], Tail(frame[2])>>)

RECURSIVE CircularLoop(_, _, _), CircularAfter(_, _, _)
CircularLoop(g, st, ids) ==
  IF ids = <<>> THEN [errors |-> <<>>, calls |-> st.calls]
  ELSE IF Head(ids) \in st.visited THEN CircularLoop(g, st, Tail(ids))
  ELSE CircularAfter(g, hasCycle(g, st, Head(ids)), ids)

CircularAfter(g, r, ids) ==
  LET rest == CircularLoop(g, r, Tail(ids))
  IN IF r.found
     THEN [rest EXCEPT !.errors =
             <<Finding("circular_dependency", Head(ids),
                       "Circular dependency detected", "error")>> \o @]
     ELSE rest

\* errors: the returned ValidationError[]; calls: invocations of hasCycle
CircularRun(g) ==
  CircularLoop(g, [visited |-> {}, recursionStack |-> {}, found |-> FALSE, calls |-> 0],
               g.order)

detectCircularDependencies(g) == CircularRun(g).errors

RECURSIVE MissingPrereqs(_, _, _)
\* the prerequisite looked up among the quest nodes only
MissingPrereqs_questsOnly(g, nodeId, prereqs) ==
  IF prereqs = <<>> THEN <<>>
  ELSE (IF \/ Head(prereqs).id \notin DOMAIN g.nodes
           \/ g.nodes[Head(prereqs).id].type # "quest"
        THEN <<Finding("missing_prerequisites", nodeId,
                       "references non-existent prerequisite", "error")>>
        ELSE <<>>) \o MissingPrereqs(g, nodeId, Tail(prereqs))

MissingPrereqs(g, nodeId, prereqs) ==
  IF prereqs = <<>> THEN <<>>
  ELSE (IF Head(prereqs).id \notin DOMAIN g.nodes
        THEN <<Finding("missing_prerequisites", nodeId,
                       "references non-existent prerequisite", "error")>>
        ELSE <<>>) \o MissingPrereqs(g, nodeId, Tail(prereqs))

RECURSIVE PrerequisitesLoop(_, _)
PrerequisitesLoop(g, ids) ==
  IF ids = <<>> THEN <<>>
  ELSE LET node == g.nodes[Head(ids)]
       IN (IF node.type = "quest"
           THEN MissingPrereqs(g, Head(ids), node.data.prerequisites)
           ELSE <<>>) \o PrerequisitesLoop(g, Tail(ids))

validatePrerequisites(g) == PrerequisitesLoop(g, g.order)

\* JavaScript truthiness of the modelled property values
Falsy(v) == v \in {"undefined", "null", "", "0", "false"}

isValidCondition(condition) ==
  IF Falsy(condition.type) \/ Falsy(condition.operator) \/ Falsy(condition.value)
  THEN FALSE
  ELSE IF condition.type \notin {"stat", "inventory", "flag", "quest"} THEN FALSE
  ELSE IF condition.operator \notin {"eq", "gt", "lt", "gte", "lte", "ne", "has", "not_has"}
       THEN FALSE
  ELSE IF condition.type = "stat" /\ condition.operator \in {"has", "not_has"} THEN FALSE
  ELSE TRUE

RECURSIVE InvalidConditions(_, _, _)
InvalidConditions(nodeId, conditions, where) ==
  IF conditions = <<>> THEN <<>>
  ELSE (IF ~isValidCondition(Head(conditions))
        THEN <<Finding("invalid_condition", nodeId, where, "error")>>
        ELSE <<>>) \o InvalidConditions(nodeId, Tail(conditions), where)

\* prereqs.forEach / outcomes.forEach over the records holding conditions
RECURSIVE ConditionHolders(_, _, _)
ConditionHolders(nodeId, holders, where) ==
  IF holders = <<>> THEN <<>>
  ELSE InvalidConditions(nodeId, Head(holders).conditions, where)
       \o ConditionHolders(nodeId, Tail(holders), where)

RECURSIVE ConditionsLoop(_, _)
ConditionsLoop(g, ids) ==
  IF ids = <<>> THEN <<>>
  ELSE LET node == g.nodes[Head(ids)]
       IN (IF node.type = "quest"
           THEN ConditionHolders(Head(ids), node.data.prerequisites,
                                 "Invalid condition in prerequisites")
                \o ConditionHolders(Head(ids), node.data.outcomes,
                                    "Invalid condition in outcomes")
           ELSE <<>>) \o ConditionsLoop(g, Tail(ids))

validateConditions(g) == ConditionsLoop(g, g.order)

generateSummary(g, errors, warnings) ==
  [totalNodes |-> Len(g.order),
   totalEdges |-> Len(g.edgeOrder),
   orphanNodes |-> CountErrors(errors, "type", "orphan"),
   unreachableNodes |-> CountErrors(errors, "type", "unreachable"),
   brokenChains |-> CountErrors(errors, "type", "broken_chain"),
   circularDependencies |-> CountErrors(errors, "type", "circular_dependency")]

IsValid(errors) == Len(errors) = 0

\* the gate of validateQuest (line 161) used for the whole graph
ExportReady_errorsOnly(errors, warnings) == Len(errors) = 0

ExportReady(errors, warnings) == Len(errors) = 0 /\ Len(warnings) < 5

(***************************************************************************)
(* validateStoryGraph (validation.service.ts 48-115), after the fetches.   *)
(***************************************************************************)
\* status "ok" is the returned ValidationResult, "threw" the rethrown error of
\* the catch block; hasCycleCalls records the work of the cycle search
validateStoryGraph(arcs, qs, ds) ==
  LET graph == buildGraph(arcs, qs, ds)
  IN IF graph.threw THEN [status |-> "threw", message |-> "Validation failed"]
     ELSE
     LET orphanErrors == detectOrphanNodes(graph)
         unreachableErrors == detectUnreachableNodes(graph)
         brokenChainErrors == detectBrokenChains(graph)
         circular == CircularRun(graph)
         circularErrors == circular.errors
         prerequisiteErrors == validatePrerequisites(graph)
         conditionErrors == validateConditions(graph)
         errors == SelectErrors(orphanErrors, "severity", "error")
                   \o SelectErrors(unreachableErrors, "severity", "error")
                   \o SelectErrors(brokenChainErrors, "severity", "error")
                   \o SelectErrors(circularErrors, "severity", "error")
                   \o SelectErrors(prerequisiteErrors, "severity", "error")
                   \o SelectErrors(conditionErrors, "severity", "error")
         warnings == SelectErrors(orphanErrors, "severity", "warning")
                     \o SelectErrors(unreachableErrors, "severity", "warning")
                     \o SelectErrors(brokenChainErrors, "severity", "warning")
                     \o SelectErrors(circularErrors, "severity", "warning")
                     \o SelectErrors(prerequisiteErrors, "severity", "warning")
                     \o SelectErrors(conditionErrors, "severity", "warning")
     IN [status |-> "ok",
         isValid |-> IsValid(errors),
         errors |-> errors,
         warnings |-> warnings,
         exportReady |-> ExportReady(errors, warnings),
         summary |-> generateSummary(graph, errors, warnings),
         hasCycleCalls |-> circular.calls]

(***************************************************************************)
(* validateQuest (validation.service.ts 120-164) and its three passes.     *)
(***************************************************************************)
\* String.prototype.trim on the modelled texts: " " is a whitespace-only text
Trim(text) == IF text = " " THEN "" ELSE text

\* !text || text.trim().length === 0
Blank(text) == Falsy(text) \/ Trim(text) = ""

\* outcomes.reduce((sum, outcome) => sum + (outcome.probability || 0), 0)
RECURSIVE TotalProbability(_)
TotalProbability(outcomes) ==
  IF outcomes = <<>> THEN 0
  ELSE TotalProbability(SubSeq(outcomes, 1, Len(outcomes) - 1))
       + (IF outcomes[Len(outcomes)].probability = UNDEFINED THEN 0
          ELSE outcomes[Len(outcomes)].probability)

Abs(x) == IF x < 0 THEN -x ELSE x

\* 100 and the tolerance 0.01, in thousandths
Hundred == 100000
Tolerance == 10

\* the probability test with an exact comparison in place of the tolerance
validateQuestStructure_exactSum(quest) ==
  (IF Blank(quest.title)
   THEN <<Finding("broken_chain", quest.id, "Quest title is required", "error")>>
   ELSE <<>>)
  \o (IF Blank(quest.description)
      THEN <<Finding("broken_chain", quest.id, "Quest description is required", "error")>>
      ELSE <<>>)
  \o (IF Len(quest.outcomes) = 0
      THEN <<Finding("broken_chain", quest.id, "Quest must have at least one outcome", "error")>>
      ELSE <<>>)
  \o (IF Len(quest.outcomes) > 0 /\ TotalProbability(quest.outcomes) # Hundred
      THEN <<Finding("broken_chain", quest.id, "Outcome probabilities must sum to 100%", "warning")>>
      ELSE <<>>)

validateQuestStructure(quest) ==
  (IF Blank(quest.title)
   THEN <<Finding("broken_chain", quest.id, "Quest title is required", "error")>>
   ELSE <<>>)
  \o (IF Blank(quest.description)
      THEN <<Finding("broken_chain", quest.id, "Quest description is required", "error")>>
      ELSE <<>>)
  \o (IF Len(quest.outcomes) = 0
      THEN <<Finding("broken_chain", quest.id, "Quest must have at least one outcome", "error")>>
      ELSE <<>>)
  \o (IF Len(quest.outcomes) > 0
         /\ Abs(TotalProbability(quest.outcomes) - Hundred) > Tolerance
      THEN <<Finding("broken_chain", quest.id, "Outcome probabilities must sum to 100%", "warning")>>
      ELSE <<>>)

RECURSIVE QuestPrerequisitesLoop(_, _)
QuestPrerequisitesLoop(quest, prereqs) ==
  IF prereqs = <<>> THEN <<>>
  ELSE (IF Head(prereqs).id = NULL
        THEN <<Finding("missing_prerequisites", quest.id,
                       "Prerequisite quest ID is required", "error")>>
        ELSE <<>>) \o QuestPrerequisitesLoop(quest, Tail(prereqs))

validateQuestPrerequisites(quest) == QuestPrerequisitesLoop(quest, quest.prerequisites)

RECURSIVE QuestOutcomesLoop(_, _)
QuestOutcomesLoop(quest, outcomes) ==
  IF outcomes = <<>> THEN <<>>
  ELSE LET outcome == Head(outcomes)
       IN (IF Blank(outcome.description)
           THEN <<Finding("broken_chain", quest.id, "Outcome description is required", "error")>>
           ELSE <<>>)
          \o (IF /\ outcome.probability # UNDEFINED
                 /\ (outcome.probability < 0 \/ outcome.probability > Hundred)
              THEN <<Finding("broken_chain", quest.id,
                             "Outcome probability must be between 0 and 100", "error")>>
              ELSE <<>>)
          \o QuestOutcomesLoop(quest, Tail(outcomes))

validateQuestOutcomes(quest) == QuestOutcomesLoop(quest, quest.outcomes)

\* questRepository.findOne({where: {id: questId}})
FindOne(qs, questId) ==
  IF \E i \in DOMAIN qs : qs[i].id = questId
  THEN <<qs[CHOOSE i \in DOMAIN qs : qs[i].id = questId]>>
  ELSE <<>>

\* questId records which quest the returned result is about
validateQuest(qs, questId) ==
  LET found == FindOne(qs, questId)
  IN IF found = <<>> THEN [status |-> "threw", message |-> "Quest not found"]
     ELSE
     LET quest == found[1]
         questErrors == validateQuestStructure(quest)
         prerequisiteErrors == validateQuestPrerequisites(quest)
         outcomeErrors == validateQuestOutcomes(quest)
         errors == SelectErrors(questErrors, "severity", "error")
                   \o SelectErrors(prerequisiteErrors, "severity", "error")
                   \o SelectErrors(outcomeErrors, "severity", "error")
         warnings == SelectErrors(questErrors, "severity", "warning")
                     \o SelectErrors(prerequisiteErrors, "severity", "warning")
                     \o SelectErrors(outcomeErrors, "severity", "warning")
     IN [status |-> "ok",
         questId |-> questId,
         isValid |-> Len(errors) = 0,
         errors |-> errors,
         warnings |-> warnings,
         exportReady |-> Len(errors) = 0,
         summary |-> [totalNodes |-> 1,
                      totalEdges |-> Len(quest.prerequisites) + Len(quest.outcomes),
                      orphanNodes |-> 0, unreachableNodes |-> 0,
                      brokenChains |-> 0, circularDependencies |-> 0]]

(***************************************************************************)
(* The records of the project and the operations on them.                  *)
(***************************************************************************)
NewQuest(id) ==
  [id |-> id, storyArcId |-> NULL, title |-> "title", description |-> "description",
   prerequisites |-> <<>>, outcomes |-> <<>>]

NewOutcome(next, probability, description) ==
  [nextQuestId |-> next, probability |-> probability, description |-> description,
   conditions |-> <<>>]

NewPrerequisite(id) == [id |-> id, conditions |-> <<>>]

Ids(recs) == {recs[i].id : i \in DOMAIN recs}

NodeIds == Ids(storyArcs) \cup Ids(quests) \cup Ids(dialogues)

RECURSIVE CountSet(_, _)
CountSet(recs, field) ==
  IF recs = <<>> THEN 0
  ELSE (IF Head(recs)[field] # NULL THEN 1 ELSE 0) + CountSet(Tail(recs), field)

\* number of records of the project: nodes and relationship records
Size ==
  Len(storyArcs) + Len(quests) + Len(dialogues)
  + CountSet(quests, "storyArcId") + SumLen(quests, "prerequisites")
  + SumLen(quests, "outcomes") + CountSet(dialogues, "questId")

Init ==
  /\ storyArcs = <<>>
  /\ quests = <<>>
  /\ dialogues = <<>>
  /\ result = NoResult
  /\ questResult = NoResult
  /\ heap = <<>>
  /\ sims = <<>>

AddStoryArc ==
  /\ Size < MaxSize
  /\ storyArcs' = Append(storyArcs, [id |-> ArcId(Len(storyArcs) + 1)])
  /\ result' = NoResult
  /\ UNCHANGED <<quests, dialogues, questResult, heap, sims>>

AddQuest ==
  /\ Size < MaxSize
  /\ quests' = Append(quests, NewQuest(QuestId(Len(quests) + 1)))
  /\ result' = NoResult
  /\ UNCHANGED <<storyArcs, dialogues, questResult, heap, sims>>

AddDialogue ==
  /\ Size < MaxSize
  /\ dialogues' = Append(dialogues, [id |-> DialogueId(Len(dialogues) + 1), questId |-> NULL])
  /\ result' = NoResult
  /\ UNCHANGED <<storyArcs, quests, questResult, heap, sims>>

SetStoryArc ==
  /\ Size < MaxSize
  /\ \E i \in DOMAIN quests : \E a \in Ids(storyArcs) \cup {MissingId} :
       /\ quests[i].storyArcId = NULL
       /\ quests' = [quests EXCEPT ![i].storyArcId = a]
  /\ result' = NoResult
  /\ UNCHANGED <<storyArcs, dialogues, questResult, heap, sims>>

AddPrerequisite ==
  /\ Size < MaxSize
  /\ \E i \in DOMAIN quests : \E p \in NodeIds \cup {MissingId} :
       quests' = [quests EXCEPT ![i].prerequisites = Append(@, NewPrerequisite(p))]
  /\ result' = NoResult
  /\ UNCHANGED <<storyArcs, dialogues, questResult, heap, sims>>

AddOutcome ==
  /\ Size < MaxSize
  /\ \E i \in DOMAIN quests : \E n \in Ids(quests) \cup {MissingId} :
       quests' = [quests EXCEPT ![i].outcomes = Append(@, NewOutcome(n, 100000, "outcome"))]
  /\ result' = NoResult
  /\ UNCHANGED <<storyArcs, dialogues, questResult, heap, sims>>

SetDialogueQuest ==
  /\ Size < MaxSize
  /\ \E i \in DOMAIN dialogues : \E q \in Ids(quests) \cup {MissingId} :
       /\ dialogues[i].questId = NULL
       /\ dialogues' = [dialogues EXCEPT ![i].questId = q]
  /\ result' = NoResult
  /\ UNCHANGED <<storyArcs, quests, questResult, heap, sims>>

\* POST /validation/project/:projectId
ValidateStoryGraph ==
  /\ result = NoResult
  /\ result' = validateStoryGraph(storyArcs, quests, dialogues)
  /\ UNCHANGED <<storyArcs, quests, dialogues, questResult, heap, sims>>

Next ==
  \/ AddStoryArc
  \/ AddQuest
  \/ AddDialogue
  \/ SetStoryArc
  \/ AddPrerequisite
  \/ AddOutcome
  \/ SetDialogueQuest
  \/ ValidateStoryGraph

Spec == Init /\ [][Next]_vars

(***************************************************************************)
(* Definitions used to state the properties, independent of the passes.    *)
(***************************************************************************)
Graph == buildGraph(storyArcs, quests, dialogues)

Findings == result.errors \o result.warnings

NumFindings(fs, type, nodeId) ==
  Cardinality({i \in DOMAIN fs : fs[i].type = type /\ fs[i].nodeId = nodeId})

NumOfType(fs, type) == Cardinality({i \in DOMAIN fs : fs[i].type = type})

Roots(g) ==
  {n \in DOMAIN g.nodes : g.nodes[n].type = "story_arc" /\ g.nodes[n].incoming = <<>>}

Succ(g, n) == IF n \in DOMAIN g.nodes THEN Range(g.nodes[n].outgoing) ELSE {}

\* least set containing S and closed under the outgoing adjacency
RECURSIVE Closure(_, _)
Closure(g, S) ==
  LET T == S \cup UNION {Succ(g, n) : n \in S}
  IN IF T = S THEN S ELSE Closure(g, T)

HasDirectedCycle(g) == \E n \in DOMAIN g.nodes : n \in Closure(g, Succ(g, n))

QuestRecord(id) == CHOOSE q \in Range(quests) : q.id = id

MissingPrerequisiteCount(q) ==
  Cardinality({i \in DOMAIN q.prerequisites : q.prerequisites[i].id \notin NodeIds})

AdjacencyEntries(g) ==
  LET RECURSIVE Total(_)
      Total(ids) == IF ids = <<>> THEN 0
                    ELSE Len(g.nodes[Head(ids)].outgoing) + Total(Tail(ids))
  IN Total(g.order)

(***************************************************************************)
(* Properties of whole-graph validation, checked under Spec.               *)
(***************************************************************************)
\* C1: in every result of validateStoryGraph, isValid is true exactly when
\* errors is empty, and exportReady is true exactly when errors is empty and
\* warnings has fewer than 5 entries.
C1_ValidAndExportReadyGates ==
  result.status = "ok" =>
    /\ result.isValid <=> (Len(result.errors) = 0)
    /\ result.exportReady <=> (Len(result.errors) = 0 /\ Len(result.warnings) < 5)

\* five warnings and no error: valid, but not ready for export
C1_Witness ==
  /\ result.status = "ok"
  /\ Len(result.errors) = 0
  /\ Len(result.warnings) >= 5
  /\ result.isValid
  /\ ~result.exportReady

\* C2: a node gets no unreachable error when it can be reached along the
\* outgoing adjacency from a story arc with empty incoming list (the roots
\* included), and exactly one unreachable error otherwise.
C2_UnreachableIffNotReachableFromRoot ==
  result.status = "ok" =>
    \A n \in DOMAIN Graph.nodes :
      NumFindings(Findings, "unreachable", n)
        = IF n \in Closure(Graph, Roots(Graph)) THEN 0 ELSE 1

\* a quest reached from a root arc next to a node that is not reached
C2_Witness ==
  /\ result.status = "ok"
  /\ \E n \in Closure(Graph, Roots(Graph)) \ Roots(Graph) :
       /\ n \in DOMAIN Graph.nodes
       /\ NumFindings(result.errors, "unreachable", n) = 0
  /\ \E m \in DOMAIN Graph.nodes :
       /\ m \notin Closure(Graph, Roots(Graph))
       /\ NumFindings(result.errors, "unreachable", m) = 1

\* C3: detectCircularDependencies returns at least one circular_dependency
\* error if and only if the outgoing adjacency contains a directed cycle.
C3_CycleErrorIffDirectedCycle ==
  result.status = "ok" =>
    (NumOfType(Findings, "circular_dependency") >= 1 <=> HasDirectedCycle(Graph))

\* a cycle through at least two nodes that is reported
C3_Witness ==
  /\ result.status = "ok"
  /\ \E n \in DOMAIN Graph.nodes :
       \E m \in Succ(Graph, n) \ {n} : n \in Closure(Graph, {m}) 
  /\ NumOfType(result.errors, "circular_dependency") >= 1

\* C4: a quest node gets a broken_chain error exactly when the quest declares
\* at least one prerequisite and no edge of type prerequisite into that quest
\* exists in the graph.
C4_BrokenChainIffNoPrerequisiteEdge ==
  result.status = "ok" =>
    \A n \in DOMAIN Graph.nodes :
      Graph.nodes[n].type = "quest" =>
        (NumFindings(Findings, "broken_chain", n) >= 1
         <=> /\ Len(Graph.nodes[n].data.prerequisites) > 0
             /\ ~\E k \in DOMAIN Graph.edges :
                   Graph.edges[k].type = "prerequisite" /\ Graph.edges[k].target = n)

\* C5: validation reports one missing_prerequisites error on a quest for each
\* of its prerequisite ids that is the id of no node, none for a quest whose
\* prerequisite ids are all nodes, and building the graph raises no error.
C5_MissingPrerequisitesReported ==
  result # NoResult =>
    /\ result.status = "ok"
    /\ \A n \in NodeIds :
         NumFindings(Findings, "missing_prerequisites", n)
           = IF n \in Ids(quests) THEN MissingPrerequisiteCount(QuestRecord(n)) ELSE 0

\* one quest with a dangling prerequisite, one whose prerequisites all exist
C5_Witness ==
  /\ result.status = "ok"
  /\ \E q \in Range(quests) :
       /\ MissingPrerequisiteCount(q) >= 1
       /\ NumFindings(result.errors, "missing_prerequisites", q.id) >= 1
  /\ \E q \in Range(quests) :
       /\ Len(q.prerequisites) >= 1
       /\ MissingPrerequisiteCount(q) = 0
       /\ NumFindings(result.errors, "missing_prerequisites", q.id) = 0

\* C7: every node whose incoming and outgoing lists are both empty gets
\* exactly one orphan finding, a warning and never an error; a node with any
\* connection gets none.
C7_OrphanWarningExactlyOnce ==
  result.status = "ok" =>
    /\ \A n \in DOMAIN Graph.nodes :
         /\ NumFindings(result.warnings, "orphan", n)
              = IF Graph.nodes[n].incoming = <<>> /\ Graph.nodes[n].outgoing = <<>>
                THEN 1 ELSE 0
         /\ NumFindings(result.errors, "orphan", n) = 0
    /\ \A i \in DOMAIN Findings :
         Findings[i].type = "orphan" => Findings[i].severity = "warning"

\* an orphan next to a connected node
C7_Witness ==
  /\ result.status = "ok"
  /\ \E n \in DOMAIN Graph.nodes :
       /\ Graph.nodes[n].incoming = <<>> /\ Graph.nodes[n].outgoing = <<>>
       /\ NumFindings(result.warnings, "orphan", n) = 1
  /\ \E m \in DOMAIN Graph.nodes :
       /\ Graph.nodes[m].incoming # <<>>
       /\ NumFindings(Findings, "orphan", m) = 0

\* C9: for any records, cyclic chains and dangling references included,
\* validateStoryGraph returns a ValidationResult and throws nothing; the
\* cycle search makes at most one call of hasCycle per node and per
\* adjacency entry.
C9_ValidationAlwaysReturns ==
  result # NoResult =>
    /\ result.status = "ok"
    /\ result.hasCycleCalls <= Len(Graph.order) + AdjacencyEntries(Graph)
    /\ result.summary.totalNodes = Cardinality(NodeIds)

\* a cyclic chain together with a reference to an id that does not exist
C9_Witness ==
  /\ result.status = "ok"
  /\ HasDirectedCycle(Graph)
  /\ \E q \in Range(quests) : MissingPrerequisiteCount(q) >= 1
  /\ Len(result.errors) >= 2

(***************************************************************************)
(* SpecCond: conditions attached to a prerequisite and to an outcome of a  *)
(* fixed two-quest chain, then whole-graph validation.                     *)
(***************************************************************************)
ConditionTypes == {"undefined", "stat", "inventory", "flag", "quest", "reputation", "mood"}
ConditionOperators == {"undefined", "eq", "gte", "has", "not_has", "like"}
\* the property value as JSON text: absent, 0, false, 5, true
ConditionValues == {"undefined", "0", "false", "5", "true"}

Conditions ==
  [type : ConditionTypes, operator : ConditionOperators, value : ConditionValues]

NumConditions ==
  LET RECURSIVE Total(_)
      Total(qs) == IF qs = <<>> THEN 0
                   ELSE SumLen(Head(qs).prerequisites, "conditions")
                        + SumLen(Head(qs).outcomes, "conditions") + Total(Tail(qs))
  IN Total(quests)

InitCond ==
  /\ storyArcs = <<[id |-> ArcId(1)]>>
  /\ quests = <<[NewQuest(QuestId(1)) EXCEPT
                   !.outcomes = <<NewOutcome(QuestId(2), Hundred, "outcome")>>],
                [NewQuest(QuestId(2)) EXCEPT
                   !.prerequisites = <<NewPrerequisite(QuestId(1))>>]>>
  /\ dialogues = <<>>
  /\ result = NoResult
  /\ questResult = NoResult
  /\ heap = <<>>
  /\ sims = <<>>

AddPrerequisiteCondition ==
  /\ NumConditions < MaxConds
  /\ \E i \in DOMAIN quests : \E j \in DOMAIN quests[i].prerequisites : \E c \in Conditions :
       quests' = [quests EXCEPT ![i].prerequisites[j].conditions = Append(@, c)]
  /\ result' = NoResult
  /\ UNCHANGED <<storyArcs, dialogues, questResult, heap, sims>>

AddOutcomeCondition ==
  /\ NumConditions < MaxConds
  /\ \E i \in DOMAIN quests : \E j \in DOMAIN quests[i].outcomes : \E c \in Conditions :
       quests' = [quests EXCEPT ![i].outcomes[j].conditions = Append(@, c)]
  /\ result' = NoResult
  /\ UNCHANGED <<storyArcs, dialogues, questResult, heap, sims>>

NextCond ==
  \/ AddPrerequisiteCondition
  \/ AddOutcomeCondition
  \/ ValidateStoryGraph

SpecCond == InitCond /\ [][NextCond]_vars

\* the conditions of a quest record, prerequisites first
AllConditions(q) ==
  LET RECURSIVE Flat(_)
      Flat(holders) == IF holders = <<>> THEN <<>>
                       ELSE Head(holders).conditions \o Flat(Tail(holders))
  IN Flat(q.prerequisites) \o Flat(q.outcomes)

\* the compatibility matrix of the data model
DeclaredInvalid(c) ==
  \/ c.type = "undefined"
  \/ c.operator = "undefined"
  \/ c.value = "undefined"
  \/ c.operator \in {"has", "not_has"} /\ c.type \in {"stat", "reputation"}

WellTagged(c) ==
  /\ c.type \in {"undefined", "stat", "inventory", "flag", "quest", "reputation"}
  /\ c.operator \in {"undefined", "eq", "gt", "lt", "gte", "lte", "ne", "has", "not_has"}

\* C6: a condition is reported as invalid_condition exactly when it lacks a
\* type, an operator or a value, or pairs has/not_has with stat or
\* reputation; a condition of one of the five types with a compatible
\* operator and a value present (0 and false included) is not reported.
C6_InvalidConditionMatrix ==
  result.status = "ok" =>
    \A q \in Range(quests) :
      (\A i \in DOMAIN AllConditions(q) : WellTagged(AllConditions(q)[i])) =>
        NumFindings(Findings, "invalid_condition", q.id)
          = Cardinality({i \in DOMAIN AllConditions(q) : DeclaredInvalid(AllConditions(q)[i])})

(***************************************************************************)
(* SpecQuest: one quest whose texts and outcomes are edited, then          *)
(* quest-local validation.                                                 *)
(***************************************************************************)
\* outcome probabilities in thousandths: absent, -10, 0, 49.99, 49.995, 50,
\* 50.005, 50.01, 100, 150
Probabilities ==
  {UNDEFINED, -10000, 0, 49990, 49995, 50000, 50005, 50010, Hundred, 150000}

Texts == {"text", " ", ""}

InitQuest ==
  /\ storyArcs = <<>>
  /\ quests = <<NewQuest(QuestId(1))>>
  /\ dialogues = <<>>
  /\ result = NoResult
  /\ questResult = NoResult
  /\ heap = <<>>
  /\ sims = <<>>

EditQuestText ==
  /\ \E i \in DOMAIN quests : \E t \in Texts : \E d \in Texts \cup {"null"} :
       quests' = [quests EXCEPT ![i].title = t, ![i].description = d]
  /\ questResult' = NoResult
  /\ UNCHANGED <<storyArcs, dialogues, result, heap, sims>>

AddQuestOutcome ==
  /\ \E i \in DOMAIN quests : \E p \in Probabilities : \E d \in {"text", " "} :
       /\ Len(quests[i].outcomes) < MaxOutcomes
       /\ quests' = [quests EXCEPT ![i].outcomes = Append(@, NewOutcome(NULL, p, d))]
  /\ questResult' = NoResult
  /\ UNCHANGED <<storyArcs, dialogues, result, heap, sims>>

\* POST /validation/quest/:questId
ValidateQuest ==
  /\ questResult = NoResult
  /\ \E id \in Ids(quests) \cup {MissingId} :
       questResult' = validateQuest(quests, id)
  /\ UNCHANGED <<storyArcs, quests, dialogues, result, heap, sims>>

NextQuest ==
  \/ EditQuestText
  \/ AddQuestOutcome
  \/ ValidateQuest

SpecQuest == InitQuest /\ [][NextQuest]_vars

\* sum of the declared outcome probabilities, an absent one counting 0
ProbabilitySum(q) ==
  LET RECURSIVE Sum(_)
      Sum(os) == IF os = <<>> THEN 0
                 ELSE (IF Head(os).probability = UNDEFINED THEN 0 ELSE Head(os).probability)
                      + Sum(Tail(os))
  IN Sum(q.outcomes)

WithinTolerance(q) ==
  ProbabilitySum(q) >= Hundred - Tolerance /\ ProbabilitySum(q) <= Hundred + Tolerance

NumSumFindings(fs) ==
  Cardinality({i \in DOMAIN fs : fs[i].message = "Outcome probabilities must sum to 100%"})

MaxSimQuests == 2
\* concurrent createSimulation calls of one batch (SpecBatch)
BatchSize == 2

valVars == <<storyArcs, quests, dialogues, result, questResult>>

Deref(h, ref) == h[ref]

Store(h, ref, v) == [h EXCEPT ![ref] = v]

\* obj[key] of a JavaScript object, undefined when the key is absent
Get(obj, key) == IF key \in DOMAIN obj THEN obj[key] ELSE UNDEFINED

\* obj[key] = v
Put(obj, key, v) ==
  [k \in DOMAIN obj \cup {key} |-> IF k = key THEN v ELSE obj[k]]

Min(a, b) == IF a < b THEN a ELSE b

Max(a, b) == IF a > b THEN a ELSE b

\* Math.round of the rational n / d, d > 0: the nearest integer, halves up
Round(n, d) == (2 * n + d) \div (2 * d)

DefaultStats ==
  [health |-> 100, mana |-> 100, experience |-> 0, level |-> 1, gold |-> 50]

DefaultReputation ==
  [f \in {"neutral", "townsfolk", "merchants", "guards"} |-> 0]

DefaultAlignment == [good |-> 0, neutral |-> 50, evil |-> 0]

\* { ...a, ...b }: own fields of b replace those of a, nested objects by reference
Spread(a, b) ==
  [k \in DOMAIN a \cup DOMAIN b |-> IF k \in DOMAIN b THEN b[k] ELSE a[k]]

initializePlayerState_hoistedDefaults(h, partialState) ==
  LET base == IF Len(h) >= 6 THEN Len(h) - 6 ELSE Len(h)
      defaultState ==
        [stats |-> base + 1, reputation |-> base + 2, alignment |-> base + 3,
         inventory |-> base + 4, flags |-> base + 5,
         quest_progress |-> base + 6, current_location |-> "town_square"]
  IN [heap |-> IF Len(h) >= 6 THEN h
               ELSE h \o <<DefaultStats, DefaultReputation, DefaultAlignment,
                            <<>>, <<>>, <<>>>>,
      state |-> Spread(defaultState, partialState)]

\* every call allocates the six nested objects of defaultState anew
initializePlayerState(h, partialState) ==
  LET base == Len(h)
      defaultState ==
        [stats |-> base + 1, reputation |-> base + 2, alignment |-> base + 3,
         inventory |-> base + 4, flags |-> base + 5,
         quest_progress |-> base + 6, current_location |-> "town_square"]
  IN [heap |-> h \o <<DefaultStats, DefaultReputation, DefaultAlignment,
                      <<>>, <<>>, <<>>>>,
      state |-> Spread(defaultState, partialState)]

\* let currentState = { ...initialState }
ShallowCopy(state) == [k \in DOMAIN state |-> state[k]]

\* the PlayerState as JSON: every reference replaced by the object it names
Snapshot(h, state) ==
  [k \in DOMAIN state |->
     IF k \in {"stats", "reputation", "alignment", "inventory", "flags",
               "quest_progress"}
       THEN Deref(h, state[k]) ELSE state[k]]

ProgressEntry_retry(status, progress) ==
  [status |-> IF status = "failed" THEN "not_started" ELSE status,
   progress |-> progress]

ProgressEntry(status, progress) == [status |-> status, progress |-> progress]

\* quests.forEach(quest => currentState.quest_progress[quest.id] = not_started)
RECURSIVE InitQuestProgress(_, _, _, _)
InitQuestProgress(h, state, qs, i) ==
  IF i > Len(qs) THEN h
  ELSE InitQuestProgress(
         Store(h, state.quest_progress,
               Put(Deref(h, state.quest_progress), qs[i].id,
                   ProgressEntry("not_started", 0))),
         state, qs, i + 1)

PrerequisiteHolds_finished(h, state, prereq) ==
  prereq.type = "quest" =>
    LET progress == Deref(h, state.quest_progress)
    IN prereq.target \in DOMAIN progress
       /\ progress[prereq.target].status \in {"completed", "failed"}

\* one prerequisite of findAvailableQuests' switch
PrerequisiteHolds(h, state, prereq) ==
  CASE prereq.type = "quest" ->
         LET progress == Deref(h, state.quest_progress)
         IN prereq.target \in DOMAIN progress
            /\ progress[prereq.target].status = "completed"
    [] prereq.type = "stat" ->
         LET stat == Get(Deref(h, state.stats), prereq.target)
         IN stat # UNDEFINED /\ stat >= prereq.value
    [] prereq.type = "flag" ->
         LET flags == Deref(h, state.flags)
         IN prereq.target \in DOMAIN flags
            /\ flags[prereq.target] = prereq.value
    [] prereq.type = "reputation" ->
         LET rep == Get(Deref(h, state.reputation), prereq.target)
         IN rep # UNDEFINED /\ rep >= prereq.value
    [] OTHER -> TRUE

IsAvailable_anyStatus(h, state, quest) ==
  \A i \in 1..Len(quest.prerequisites) :
    PrerequisiteHolds(h, state, quest.prerequisites[i])

IsAvailable(h, state, quest) ==
  /\ Deref(h, state.quest_progress)[quest.id].status = "not_started"
  /\ \A i \in 1..Len(quest.prerequisites) :
       PrerequisiteHolds(h, state, quest.prerequisites[i])

findAvailableQuests(h, qs, state) ==
  SelectSeq(qs, LAMBDA quest : IsAvailable(h, state, quest))

\* availableQuests.find(q => q.type === type) || availableQuests[0]
FindTypeOrFirst(availableQuests, type) ==
  LET hits == SelectSeq(availableQuests, LAMBDA q : q.type = type)
  IN IF hits # <<>> THEN hits[1] ELSE availableQuests[1]

\* random is Math.floor(Math.random() * availableQuests.length), from 0
selectNextQuest(availableQuests, playStyle, random) ==
  IF availableQuests = <<>> THEN NULL
  ELSE CASE playStyle = "aggressive" ->
              FindTypeOrFirst(availableQuests, "combat")
         [] playStyle = "diplomatic" ->
              FindTypeOrFirst(availableQuests, "dialogue")
         [] playStyle = "exploration" ->
              FindTypeOrFirst(availableQuests, "exploration")
         [] OTHER -> availableQuests[random + 1]

generateQuestRewards(quest, completed) ==
  IF ~completed THEN <<>>
  ELSE LET experience == quest.difficulty * 10
           gold == quest.difficulty * 5
       IN CASE quest.type = "combat" ->
                 [experience |-> (experience * 15) \div 10, gold |-> gold,
                  items |-> <<"weapon_upgrade">>, flags |-> <<>>]
            [] quest.type = "dialogue" ->
                 [experience |-> experience, gold |-> (gold * 12) \div 10,
                  items |-> <<>>,
                  flags |-> [f \in {"diplomatic_skill"} |-> TRUE]]
            [] quest.type = "exploration" ->
                 [experience |-> (experience * 13) \div 10, gold |-> gold,
                  items |-> <<"map_fragment">>, flags |-> <<>>]
            [] OTHER ->
                 [experience |-> experience, gold |-> gold,
                  items |-> <<>>, flags |-> <<>>]

generatePlayerChoices_attack(h, quest, state) ==
  LET stats == Deref(h, state.stats)
  IN CASE quest.type = "combat" ->
            (IF stats.health > 50 THEN <<"attack">> ELSE <<>>)
            \o (IF stats.level > 2 THEN <<"defend">> ELSE <<>>)
            \o <<"flee">>
       [] quest.type = "dialogue" ->
            <<"agree", "disagree">>
            \o (IF stats.level > 3 THEN <<"negotiate">> ELSE <<>>)
       [] quest.type = "exploration" ->
            <<"explore", "search">>
            \o (IF stats.level > 1 THEN <<"investigate">> ELSE <<>>)
       [] OTHER -> <<"proceed">>

generatePlayerChoices(h, quest, state) ==
  LET stats == Deref(h, state.stats)
  IN CASE quest.type = "combat" ->
            (IF stats.health > 50 THEN <<"fight">> ELSE <<>>)
            \o (IF stats.level > 2 THEN <<"defend">> ELSE <<>>)
            \o <<"flee">>
       [] quest.type = "dialogue" ->
            <<"agree", "disagree">>
            \o (IF stats.level > 3 THEN <<"negotiate">> ELSE <<>>)
       [] quest.type = "exploration" ->
            <<"explore", "search">>
            \o (IF stats.level > 1 THEN <<"investigate">> ELSE <<>>)
       [] OTHER -> <<"proceed">>

\* success rate in hundredths
SuccessRate(h, quest, state) ==
  LET stats == Deref(h, state.stats)
  IN 70 + (IF quest.type = "combat" /\ stats.health > 80 THEN 10 ELSE 0)
        + (IF quest.type = "dialogue" /\ stats.level > 3 THEN 10 ELSE 0)

\* roll is Math.random() in hundredths
simulateQuest(h, quest, state, roll) ==
  LET completed == roll < SuccessRate(h, quest, state)
  IN [completed |-> completed,
      duration |-> IF quest.estimated_duration \in {UNDEFINED, 0}
                     THEN 300 ELSE quest.estimated_duration,
      rewards |-> generateQuestRewards(quest, completed),
      choices |-> generatePlayerChoices(h, quest, state)]

Includes(seq, x) == \E i \in 1..Len(seq) : seq[i] = x

\* if (result.rewards.<field>): present and truthy
Truthy(rewards, field) ==
  field \in DOMAIN rewards /\ rewards[field] # 0

\* level-up check at the end of updateStateFromQuest
LevelUp(stats) ==
  LET newLevel == (stats.experience \div 100) + 1
  IN IF newLevel > stats.level
       THEN [stats EXCEPT !.level = newLevel,
                          !.health = Min(100, stats.health + 10),
                          !.mana = Min(100, stats.mana + 10)]
       ELSE stats

\* returns the heap; newState = { ...state } keeps every nested reference
updateStateFromQuest(h, state, quest, res) ==
  LET progress == Deref(h, state.quest_progress)
      stats == Deref(h, state.stats)
      rewards == res.rewards
      h1 == IF res.completed
              THEN Store(h, state.quest_progress,
                         Put(progress, quest.id, ProgressEntry("completed", 100)))
              ELSE Store(h, state.quest_progress,
                         Put(progress, quest.id, ProgressEntry("failed", 0)))
      stats1 ==
        IF res.completed
          THEN [stats EXCEPT
                  !.experience = IF Truthy(rewards, "experience")
                                   THEN @ + rewards.experience ELSE @,
                  !.gold = IF Truthy(rewards, "gold")
                             THEN @ + rewards.gold ELSE @]
          ELSE stats
      h2 == Store(h1, state.stats, stats1)
      h3 == IF res.completed /\ "items" \in DOMAIN rewards
              THEN Store(h2, state.inventory,
                         Deref(h2, state.inventory) \o rewards.items)
              ELSE h2
      h4 == IF res.completed /\ "flags" \in DOMAIN rewards
              THEN Store(h3, state.flags,
                         Spread(Deref(h3, state.flags), rewards.flags))
              ELSE h3
  IN Store(h4, state.stats, LevelUp(Deref(h4, state.stats)))

\* String.toLowerCase on the words that occur in titles, descriptions, names
ToLowerCase(word) ==
  CASE word = "Aldric" -> "aldric"
    [] word = "MARA" -> "mara"
    [] word = "Mara" -> "mara"
    [] word = "Bren" -> "bren"
    [] word = "Defend" -> "defend"
    [] OTHER -> word

\* text.toLowerCase().includes(name.toLowerCase())
TextIncludes(text, name) ==
  \E i \in 1..Len(text) : ToLowerCase(text[i]) = ToLowerCase(name)

IsInvolved(quest, character) ==
  \/ TextIncludes(quest.title, character.name)
  \/ TextIncludes(quest.description, character.name)

\* Math.round(baseChange * multiplier), multiplier 1.2, 0.8 or 1.0
ReputationGain(character) ==
  LET multiplier10 ==
        IF Includes(character.personality_traits, "friendly") THEN 12
        ELSE IF Includes(character.personality_traits, "hostile") THEN 8
        ELSE 10
  IN Round(5 * multiplier10, 10)

\* involvedCharacters.forEach: changes[faction] = ..., in array order; a
\* character without faction has the empty string there
RECURSIVE ReputationLoop(_, _, _, _)
ReputationLoop(quest, characters, i, changes) ==
  IF i > Len(characters) THEN changes
  ELSE LET character == characters[i]
           faction == IF character.faction = ""
                        THEN "neutral" ELSE character.faction
       IN ReputationLoop(quest, characters, i + 1,
            IF IsInvolved(quest, character)
              THEN Put(changes, faction, ReputationGain(character))
              ELSE changes)

calculateReputationChanges_always(quest, res, characters) ==
  ReputationLoop(quest, characters, 1, <<>>)

calculateReputationChanges(quest, res, characters) ==
  IF ~res.completed THEN <<>>
  ELSE ReputationLoop(quest, characters, 1, <<>>)

calculateAlignmentChanges(quest, res) ==
  IF ~res.completed THEN [good |-> 0, neutral |-> 0, evil |-> 0]
  ELSE CASE quest.type = "combat" ->
              IF Includes(res.choices, "defend") \/ Includes(res.choices, "protect")
                THEN [good |-> 5, neutral |-> 0, evil |-> 0]
              ELSE IF Includes(res.choices, "attack") \/ Includes(res.choices, "kill")
                THEN [good |-> 0, neutral |-> 0, evil |-> 3]
              ELSE [good |-> 0, neutral |-> 0, evil |-> 0]
         [] quest.type = "dialogue" ->
              IF Includes(res.choices, "help") \/ Includes(res.choices, "agree")
                THEN [good |-> 3, neutral |-> 2, evil |-> 0]
                ELSE [good |-> 0, neutral |-> 2, evil |-> 0]
         [] quest.type = "exploration" -> [good |-> 0, neutral |-> 1, evil |-> 0]
         [] OTHER -> [good |-> 0, neutral |-> 1, evil |-> 0]

\* Math.max(-100, Math.min(100, value))
Clamp(value) == Max(-100, Min(100, value))

\* only the factions named in changes are written
applyReputationChanges(h, state, changes) ==
  LET reputation == Deref(h, state.reputation)
      Old(faction) == IF Get(reputation, faction) = UNDEFINED
                        THEN 0 ELSE reputation[faction]
  IN Store(h, state.reputation,
           [f \in DOMAIN reputation \cup DOMAIN changes |->
              IF f \in DOMAIN changes
                THEN Clamp(Old(f) + changes[f]) ELSE reputation[f]])

\* add, then normalise to percentages when the total is positive
Normalize(alignment) ==
  LET total == alignment.good + alignment.neutral + alignment.evil
      good == Round(alignment.good * 100, total)
      neutral == Round(alignment.neutral * 100, total)
  IN IF total > 0
       THEN [good |-> good, neutral |-> neutral, evil |-> 100 - good - neutral]
       ELSE alignment

applyAlignmentChanges(h, state, changes) ==
  LET alignment == Deref(h, state.alignment)
  IN Store(h, state.alignment,
           Normalize([good |-> alignment.good + changes.good,
                      neutral |-> alignment.neutral + changes.neutral,
                      evil |-> alignment.evil + changes.evil]))

addEvent_questClock(events, type, severity, data) ==
  Append(events, [type |-> type, severity |-> severity, data |-> data,
                  timestamp |-> IF type = "quest_start" THEN 0
                                ELSE Len(events) * 30])

\* timestamp: events.length * 30
addEvent(events, type, severity, data) ==
  Append(events, [type |-> type, severity |-> severity, data |-> data,
                  timestamp |-> Len(events) * 30])

\* (request.max_duration || 60) * 60, in seconds
LoopBudget(request) ==
  (IF request.max_duration \in {UNDEFINED, 0} THEN 60
   ELSE request.max_duration) * 60

(***************************************************************************)
(* createSimulation / runSimulation, one action per stretch of code        *)
(* between two suspension points.                                          *)
(***************************************************************************)
\* local variables of one createSimulation call; body is the initial_state
\* of the request as received, draws records the values Math.random()
\* returned and before the PlayerState as it stood when the loop was entered
\* (these three are never read by a step)
NewSim(request, body, qs, characters) ==
  [pc |-> "created", request |-> request, body |-> body, quests |-> qs,
   characters |-> characters, initialState |-> NULL, currentState |-> NULL,
   currentTime |-> 0, events |-> <<>>, completedQuests |-> <<>>,
   failedQuests |-> <<>>, selectedQuest |-> NULL, questResult |-> NULL,
   draws |-> <<>>, before |-> NULL, result |-> NULL]

\* line 98, up to the first await
CreateSimulationStep(h, sim) ==
  LET init == initializePlayerState(h, sim.request.initial_state)
  IN [heap |-> init.heap,
      sim |-> [sim EXCEPT !.pc = "fetching", !.initialState = init.state]]

\* lines 208-223
RunSimulationStep(h, sim) ==
  LET currentState == ShallowCopy(sim.initialState)
      h1 == InitQuestProgress(h, currentState, sim.quests, 1)
  IN [heap |-> h1,
      sim |-> [sim EXCEPT !.pc = "loop", !.currentState = currentState,
                          !.before = Snapshot(h1, currentState),
                          !.currentTime = 0, !.events = <<>>,
                          !.completedQuests = <<>>, !.failedQuests = <<>>]]

\* the while condition and the break of lines 226-240
LoopContinues(h, sim) ==
  /\ sim.currentTime < LoopBudget(sim.request)
  /\ findAvailableQuests(h, sim.quests, sim.currentState) # <<>>

MarkInProgress_skipped(h, state, id) == h

\* currentState.quest_progress[selectedQuest.id].status = 'in_progress'
MarkInProgress(h, state, id) ==
  LET progress == Deref(h, state.quest_progress)
  IN Store(h, state.quest_progress,
           [progress EXCEPT ![id].status = "in_progress"])

\* lines 228-254, up to the await of simulateQuest's promise
StartQuestStep(h, sim, random, roll) ==
  LET availableQuests == findAvailableQuests(h, sim.quests, sim.currentState)
      selectedQuest ==
        selectNextQuest(availableQuests, sim.request.play_style, random)
      events == addEvent(sim.events, "quest_start", "info",
                         [quest_id |-> selectedQuest.id])
      h1 == MarkInProgress(h, sim.currentState, selectedQuest.id)
      currentState == Put(sim.currentState, "current_quest", selectedQuest.id)
  IN [heap |-> h1,
      sim |-> [sim EXCEPT
                 !.pc = "awaiting", !.events = events,
                 !.currentState = currentState,
                 !.selectedQuest = selectedQuest,
                 !.questResult = simulateQuest(h1, selectedQuest, currentState, roll),
                 !.draws = Append(@, <<random, roll>>)]]

\* lines 257-304
ResolveQuestStep_silentFailure(h, sim) ==
  LET quest == sim.selectedQuest
      res == sim.questResult
      state == sim.currentState
      h1 == updateStateFromQuest(h, state, quest, res)
      events1 ==
        IF res.completed
          THEN addEvent(sim.events, "quest_complete", "success",
                        [quest_id |-> quest.id, rewards |-> res.rewards])
          ELSE sim.events
      reputationChanges == calculateReputationChanges(quest, res, sim.characters)
      alignmentChanges == calculateAlignmentChanges(quest, res)
      h2 == applyReputationChanges(h1, state, reputationChanges)
      h3 == applyAlignmentChanges(h2, state, alignmentChanges)
      events2 ==
        IF DOMAIN reputationChanges # {}
          THEN addEvent(events1, "reputation_change", "info",
                        [changes |-> reputationChanges])
          ELSE events1
      events3 ==
        IF alignmentChanges.good # 0 \/ alignmentChanges.neutral # 0
           \/ alignmentChanges.evil # 0
          THEN addEvent(events2, "alignment_change", "info",
                        [changes |-> alignmentChanges])
          ELSE events2
  IN [heap |-> h3,
      sim |-> [sim EXCEPT
                 !.pc = "loop", !.events = events3,
                 !.completedQuests =
                   IF res.completed THEN Append(@, quest.id) ELSE @,
                 !.failedQuests =
                   IF res.completed THEN @ ELSE Append(@, quest.id),
                 !.currentTime = @ + res.duration]]

ResolveQuestStep(h, sim) ==
  LET quest == sim.selectedQuest
      res == sim.questResult
      state == sim.currentState
      h1 == updateStateFromQuest(h, state, quest, res)
      events1 ==
        IF res.completed
          THEN addEvent(sim.events, "quest_complete", "success",
                        [quest_id |-> quest.id, rewards |-> res.rewards])
          ELSE addEvent(sim.events, "quest_complete", "error",
                        [quest_id |-> quest.id])
      reputationChanges == calculateReputationChanges(quest, res, sim.characters)
      alignmentChanges == calculateAlignmentChanges(quest, res)
      h2 == applyReputationChanges(h1, state, reputationChanges)
      h3 == applyAlignmentChanges(h2, state, alignmentChanges)
      events2 ==
        IF DOMAIN reputationChanges # {}
          THEN addEvent(events1, "reputation_change", "info",
                        [changes |-> reputationChanges])
          ELSE events1
      events3 ==
        IF alignmentChanges.good # 0 \/ alignmentChanges.neutral # 0
           \/ alignmentChanges.evil # 0
          THEN addEvent(events2, "alignment_change", "info",
                        [changes |-> alignmentChanges])
          ELSE events2
  IN [heap |-> h3,
      sim |-> [sim EXCEPT
                 !.pc = "loop", !.events = events3,
                 !.completedQuests =
                   IF res.completed THEN Append(@, quest.id) ELSE @,
                 !.failedQuests =
                   IF res.completed THEN @ ELSE Append(@, quest.id),
                 !.currentTime = @ + res.duration]]

\* a - b of two numbers either of which may be undefined (NaN then)
Minus(a, b) == IF a = UNDEFINED \/ b = UNDEFINED THEN UNDEFINED ELSE a - b

\* lines 307-345
MakeResult(h, sim) ==
  LET current == Snapshot(h, sim.currentState)
      initial == Snapshot(h, sim.initialState)
      Change(faction) == Minus(current.reputation[faction],
                               Get(initial.reputation, faction))
  IN [initial_state |-> initial,
      final_state |-> current,
      events |-> sim.events,
      completed_quests |-> sim.completedQuests,
      failed_quests |-> sim.failedQuests,
      total_experience_gained |->
        current.stats.experience - initial.stats.experience,
      reputation_changes |->
        [f \in {g \in DOMAIN current.reputation : Change(g) # 0} |-> Change(f)],
      alignment_changes |->
        [good |-> current.alignment.good - initial.alignment.good,
         neutral |-> current.alignment.neutral - initial.alignment.neutral,
         evil |-> current.alignment.evil - initial.alignment.evil],
      play_style |-> sim.request.play_style]

FinishStep(h, sim) ==
  [heap |-> h, sim |-> [sim EXCEPT !.pc = "done", !.result = MakeResult(h, sim)]]

\* the values selectNextQuest and simulateQuest can draw in this state
Randoms(h, sim) ==
  IF sim.request.play_style \in {"aggressive", "diplomatic", "exploration"}
    THEN {0}
    ELSE 0..(Len(findAvailableQuests(h, sim.quests, sim.currentState)) - 1)

Rolls == {50, 75, 90}

Commit(r, next) ==
  /\ heap' = next.heap
  /\ sims' = [sims EXCEPT ![r] = next.sim]
  /\ UNCHANGED valVars

CreateSimulation(r) ==
  /\ sims[r].pc = "created"
  /\ Commit(r, CreateSimulationStep(heap, sims[r]))

RunSimulation(r) ==
  /\ sims[r].pc = "fetching"
  /\ Commit(r, RunSimulationStep(heap, sims[r]))

StartQuest(r) ==
  /\ sims[r].pc = "loop"
  /\ LoopContinues(heap, sims[r])
  /\ \E random \in Randoms(heap, sims[r]), roll \in Rolls :
       Commit(r, StartQuestStep(heap, sims[r], random, roll))

ResolveQuest(r) ==
  /\ sims[r].pc = "awaiting"
  /\ Commit(r, ResolveQuestStep(heap, sims[r]))

Finish(r) ==
  /\ sims[r].pc = "loop"
  /\ ~LoopContinues(heap, sims[r])
  /\ Commit(r, FinishStep(heap, sims[r]))

(***************************************************************************)
(* Inputs of the simulation: the rows the repositories return and the      *)
(* request body.                                                           *)
(***************************************************************************)
NewCharacter(name, faction, traits) ==
  [name |-> name, faction |-> faction, personality_traits |-> traits]

Characters ==
  <<NewCharacter("Aldric", "guards", <<"friendly">>),
    NewCharacter("Mara", "", <<"hostile">>),
    NewCharacter("Bren", "guards", <<>>)>>

NewSimPrerequisite(type, target, value) ==
  [type |-> type, target |-> target, value |-> value]

NewSimQuest(type, title, description, difficulty, duration, prerequisites) ==
  [id |-> NULL, type |-> type, title |-> title, description |-> description,
   difficulty |-> difficulty, estimated_duration |-> duration,
   prerequisites |-> prerequisites]

QuestTemplates ==
  <<NewSimQuest("combat", <<"Defend", "Aldric">>, <<"hold", "the", "gate">>,
                7, UNDEFINED, <<>>),
    NewSimQuest("dialogue", <<"Talk", "to", "MARA">>, <<"about", "bren">>,
                5, 600, <<NewSimPrerequisite("quest", QuestId(1), UNDEFINED)>>),
    NewSimQuest("exploration", <<"Old", "mine">>, <<"map", "the", "mine">>,
                10, 1800, <<NewSimPrerequisite("stat", "level", 2)>>),
    NewSimQuest("fetch", <<"Herbs">>, <<"for", "mara">>,
                0, 0, <<NewSimPrerequisite("flag", "diplomatic_skill", TRUE)>>),
    NewSimQuest("combat", <<"Night", "watch">>, <<"with", "aldric", "and", "Bren">>,
                2, 3600, <<NewSimPrerequisite("reputation", "guards", 5)>>),
    NewSimQuest("dialogue", <<"Rumours">>, <<"at", "the", "inn">>,
                4, 120, <<NewSimPrerequisite("item", "coin", 1)>>)>>

\* the quests of a story arc: rows with distinct ids, in the order returned
MakeQuests(templates) ==
  [i \in 1..Len(templates) |->
     [QuestTemplates[templates[i]] EXCEPT !.id = QuestId(i)]]

QuestLists ==
  UNION {[1..n -> 1..Len(QuestTemplates)] : n \in 0..MaxSimQuests}

\* request.initial_state: the nested objects the caller supplies
PartialStates ==
  <<<<>>,
    [f \in {"reputation"} |-> [g \in {"guards"} |-> 150]],
    [f \in {"alignment"} |-> [good |-> 0, neutral |-> 0, evil |-> 0]],
    [f \in {"stats"} |-> [health |-> 40, mana |-> 50, experience |-> 250,
                           level |-> 1, gold |-> 0]]>>

PlayStyles == {"aggressive", "diplomatic", "exploration", "random"}

\* minutes; UNDEFINED is a request without max_duration
MaxDurations == {UNDEFINED, 0, 1}

\* the parsed request body: each nested object of initial_state is an object
\* of its own
RECURSIVE AllocPartial(_, _, _)
AllocPartial(h, objects, partial) ==
  IF DOMAIN objects = DOMAIN partial THEN [heap |-> h, partial |-> partial]
  ELSE LET field == CHOOSE f \in DOMAIN objects : f \notin DOMAIN partial
       IN AllocPartial(Append(h, objects[field]), objects,
                       Put(partial, field, Len(h) + 1))

NewRequest(partial, playStyle, maxDuration) ==
  [initial_state |-> partial, play_style |-> playStyle,
   max_duration |-> maxDuration]

NoValidation ==
  /\ storyArcs = <<>>
  /\ quests = <<>>
  /\ dialogues = <<>>
  /\ result = NoResult
  /\ questResult = NoResult

InitSim ==
  /\ NoValidation
  /\ \E templates \in QuestLists, p \in 1..Len(PartialStates),
        playStyle \in PlayStyles, maxDuration \in MaxDurations :
       LET alloc == AllocPartial(<<>>, PartialStates[p], <<>>)
       IN /\ heap = alloc.heap
          /\ sims = <<NewSim(NewRequest(alloc.partial, playStyle, maxDuration),
                             PartialStates[p], MakeQuests(templates), Characters)>>

NextSim ==
  \/ CreateSimulation(1)
  \/ RunSimulation(1)
  \/ StartQuest(1)
  \/ ResolveQuest(1)
  \/ Finish(1)

SpecSim == InitSim /\ [][NextSim]_vars

(***************************************************************************)
(* Properties of a simulation run (SpecSim).                               *)
(***************************************************************************)
Running(sim) == sim.pc \in {"loop", "awaiting", "done"}

QuestIds(sim) == {sim.quests[i].id : i \in 1..Len(sim.quests)}

\* status of a quest of the run; "none" before the run has initialised it
QuestStatus(r, id) ==
  IF Running(sims[r])
    THEN Deref(heap, sims[r].currentState.quest_progress)[id].status
    ELSE "none"

StatusTransitions ==
  {<<"none", "not_started">>, <<"not_started", "in_progress">>,
   <<"in_progress", "completed">>, <<"in_progress", "failed">>}

InProgress(r) == {id \in QuestIds(sims[r]) : QuestStatus(r, id) = "in_progress"}

\* C11: during a run every quest's status moves only along
\* not_started -> in_progress -> completed | failed (so completed and failed
\* are terminal), and at most one quest is in_progress at any time.
C11_StatusStateMachine ==
  /\ [](\A r \in DOMAIN sims : Cardinality(InProgress(r)) <= 1)
  /\ [][\A r \in DOMAIN sims : \A id \in QuestIds(sims[r]) :
          \/ QuestStatus(r, id)' = QuestStatus(r, id)
          \/ <<QuestStatus(r, id), QuestStatus(r, id)'>> \in StatusTransitions]_vars

\* a run in which one quest has completed, another has failed
C11_Witness ==
  \E r \in DOMAIN sims :
    /\ sims[r].pc = "done"
    /\ \E a, b \in QuestIds(sims[r]) :
         /\ QuestStatus(r, a) = "completed"
         /\ QuestStatus(r, b) = "failed"

NoDuplicates(seq) ==
  \A i, j \in 1..Len(seq) : seq[i] = seq[j] => i = j

\* ids of the quests started so far, from the quest_start events
StartedQuests(sim) ==
  LET starts == SelectSeq(sim.events, LAMBDA e : e.type = "quest_start")
  IN [i \in 1..Len(starts) |-> starts[i].data.quest_id]

\* C12: every quest id is started at most once in a run (a failed quest is
\* never selected again), so no id occurs twice in completed_quests and
\* failed_quests taken together.
C12_StartedAtMostOnce ==
  \A r \in DOMAIN sims :
    /\ NoDuplicates(StartedQuests(sims[r]))
    /\ NoDuplicates(sims[r].completedQuests \o sims[r].failedQuests)

\* a quest failed, the loop went on with another quest, the run has returned
C12_Witness ==
  \E r \in DOMAIN sims :
    /\ sims[r].pc = "done"
    /\ Len(StartedQuests(sims[r])) = 2
    /\ sims[r].failedQuests # <<>>
    /\ StartedQuests(sims[r])[1] = sims[r].failedQuests[1]
    /\ sims[r].result.failed_quests = sims[r].failedQuests

\* a prerequisite as the data model reads it, on a PlayerState value
Satisfied(player, prereq) ==
  \/ /\ prereq.type = "quest"
     /\ prereq.target \in DOMAIN player.quest_progress
     /\ player.quest_progress[prereq.target].status = "completed"
  \/ /\ prereq.type = "stat"
     /\ prereq.target \in DOMAIN player.stats
     /\ player.stats[prereq.target] >= prereq.value
  \/ /\ prereq.type = "flag"
     /\ prereq.target \in DOMAIN player.flags
     /\ player.flags[prereq.target] = prereq.value
  \/ /\ prereq.type = "reputation"
     /\ prereq.target \in DOMAIN player.reputation
     /\ player.reputation[prereq.target] >= prereq.value
  \/ prereq.type \notin {"quest", "stat", "flag", "reputation"}

\* the step that starts a quest in run r
Starts(r) == sims[r].pc = "loop" /\ sims'[r].pc = "awaiting"

\* C13: a quest is started only if, when it is selected, its status is
\* not_started and each of its prerequisites holds in the current PlayerState
\* (quest: target completed; stat: at least the value; flag: equal to the
\* value; reputation: at least the value).
C13_StartedOnlyWhenAvailable ==
  [][\A r \in DOMAIN sims :
       Starts(r) =>
         LET quest == sims'[r].selectedQuest
             player == Snapshot(heap, sims[r].currentState)
         IN /\ player.quest_progress[quest.id].status = "not_started"
            /\ \A i \in 1..Len(quest.prerequisites) :
                 Satisfied(player, quest.prerequisites[i])]_vars

\* a quest with a quest-type prerequisite has been started
C13_Witness ==
  \E r \in DOMAIN sims :
    /\ sims[r].pc = "awaiting"
    /\ \E i \in 1..Len(sims[r].selectedQuest.prerequisites) :
         LET prereq == sims[r].selectedQuest.prerequisites[i]
         IN /\ prereq.type = "quest"
            /\ QuestStatus(r, prereq.target) = "completed"

\* C14: a simulation requested with max_duration = 0 executes no loop
\* iteration even when quests are available: no quest is started, the event
\* log stays empty and final_state equals initial_state.
C14_ZeroDurationRunsNothing ==
  \A r \in DOMAIN sims :
    sims[r].request.max_duration = 0 =>
      /\ sims[r].pc # "awaiting"
      /\ sims[r].events = <<>>
      /\ sims[r].pc = "done" =>
           /\ sims[r].result.events = <<>>
           /\ sims[r].result.final_state = sims[r].result.initial_state

\* sum of the experience rewards of the quest_complete events of a log
RECURSIVE ExperienceRewards(_)
ExperienceRewards(events) ==
  IF events = <<>> THEN 0
  ELSE LET e == events[Len(events)]
           rest == ExperienceRewards(SubSeq(events, 1, Len(events) - 1))
       IN IF e.type = "quest_complete" /\ e.severity = "success"
            THEN rest + e.data.rewards.experience
            ELSE rest

\* C15: the aggregate deltas of a result are the difference between the
\* player state before the first quest and the state after the last one:
\* total_experience_gained is the sum of the experience rewards of the
\* completed quests, reputation_changes and alignment_changes are the net
\* change of every faction and alignment component over the run.
C15_AggregateDeltas ==
  \A r \in DOMAIN sims :
    sims[r].pc = "done" =>
      LET res == sims[r].result
          before == sims[r].before
          final == res.final_state
          Net(f) == Minus(final.reputation[f], Get(before.reputation, f))
      IN /\ res.total_experience_gained = ExperienceRewards(res.events)
         /\ res.total_experience_gained
              = final.stats.experience - before.stats.experience
         /\ \A f \in DOMAIN final.reputation :
              IF Net(f) = 0 THEN f \notin DOMAIN res.reputation_changes
              ELSE /\ f \in DOMAIN res.reputation_changes
                   /\ res.reputation_changes[f] = Net(f)
         /\ res.alignment_changes
              = [good |-> final.alignment.good - before.alignment.good,
                 neutral |-> final.alignment.neutral - before.alignment.neutral,
                 evil |-> final.alignment.evil - before.alignment.evil]

\* the step that resolves the quest in progress of run r (one loop iteration
\* ends with it)
Resolves(r) == sims[r].pc = "awaiting" /\ sims'[r].pc = "loop"

Player(r) == Snapshot(heap, sims[r].currentState)

\* C16: after every loop iteration every faction's reputation lies in
\* [-100, 100], including factions whose value came from caller-supplied
\* initial overrides and was not changed by that iteration.
C16_ReputationInRange ==
  [][\A r \in DOMAIN sims :
       Resolves(r) =>
         \A f \in DOMAIN Player(r)'.reputation :
           Player(r)'.reputation[f] \in -100..100]_vars

AlignmentTotal(alignment) ==
  alignment.good + alignment.neutral + alignment.evil

\* C17: after any step that applies alignment changes, good + neutral + evil
\* of the PlayerState is exactly 100.
C17_AlignmentSumsTo100 ==
  [][\A r \in DOMAIN sims :
       Resolves(r) => AlignmentTotal(Player(r)'.alignment) = 100]_vars

\* C18: in the event log of a run the timestamps are non-decreasing in log
\* order.
C18_TimestampsNonDecreasing ==
  \A r \in DOMAIN sims :
    \A i, j \in 1..Len(sims[r].events) :
      i < j => sims[r].events[i].timestamp <= sims[r].events[j].timestamp

\* the returned log of a run with two quests and at least five events
C18_Witness ==
  \E r \in DOMAIN sims :
    /\ sims[r].pc = "done"
    /\ Len(StartedQuests(sims[r])) = 2
    /\ Len(sims[r].result.events) >= 5
    /\ sims[r].result.events[Len(sims[r].result.events)].timestamp > 0

\* C19: when a quest resolves as failed its status becomes failed and the
\* step grants nothing: experience, gold, inventory and flags are as before
\* the step and no faction's reputation changes.
C19_FailedQuestGrantsNothing ==
  [][\A r \in DOMAIN sims :
       (Resolves(r) /\ ~sims[r].questResult.completed) =>
         LET old == Player(r)
             new == Player(r)'
         IN /\ new.quest_progress[sims[r].selectedQuest.id].status = "failed"
            /\ new.stats.experience = old.stats.experience
            /\ new.stats.gold = old.stats.gold
            /\ new.inventory = old.inventory
            /\ new.flags = old.flags
            /\ new.reputation = old.reputation]_vars

\* a quest naming a character failed after another quest had been rewarded
C19_Witness ==
  \E r \in DOMAIN sims :
    /\ sims[r].pc = "loop"
    /\ Len(sims[r].completedQuests) = 1
    /\ Len(sims[r].failedQuests) = 1
    /\ sims[r].selectedQuest.id = sims[r].failedQuests[1]
    /\ \E i \in 1..Len(sims[r].characters) :
         IsInvolved(sims[r].selectedQuest, sims[r].characters[i])
    /\ Player(r).inventory # <<>>

(***************************************************************************)
(* Batch simulation: SimulationController.runBatchSimulations starts one   *)
(* createSimulation call per request with Promise.all; the calls           *)
(* interleave at their await points (SpecBatch).                           *)
(***************************************************************************)
\* indices into PartialStates of the request bodies of a batch
BatchBodies == {1, 4}

\* the quests of the story arc the requests of the batch name
BatchQuests == MakeQuests(<<1, 2>>)

\* requests.map(request => createSimulation(request)): the bodies are parsed
\* into objects of their own, then one call per request is started
RECURSIVE StartBatch(_, _, _)
StartBatch(h, bodies, started) ==
  IF Len(started) = Len(bodies) THEN [heap |-> h, sims |-> started]
  ELSE LET body == PartialStates[bodies[Len(started) + 1]]
           alloc == AllocPartial(h, body, <<>>)
       IN StartBatch(alloc.heap, bodies,
            Append(started,
                   NewSim(NewRequest(alloc.partial, "random", UNDEFINED),
                          body, BatchQuests, Characters)))

InitBatch ==
  /\ NoValidation
  /\ \E bodies \in [1..BatchSize -> BatchBodies] :
       LET batch == StartBatch(<<>>, bodies, <<>>)
       IN heap = batch.heap /\ sims = batch.sims

NextBatch ==
  \/ \E r \in DOMAIN sims : CreateSimulation(r)
  \/ \E r \in DOMAIN sims : RunSimulation(r)
  \/ \E r \in DOMAIN sims : StartQuest(r)
  \/ \E r \in DOMAIN sims : ResolveQuest(r)
  \/ \E r \in DOMAIN sims : Finish(r)

SpecBatch == InitBatch /\ [][NextBatch]_vars

\* no run executed alone makes these draws
Diverged == [diverged |-> TRUE]

\* the loop of a run executed alone, fed the recorded draws in order
RECURSIVE SoloLoop(_, _, _, _)
SoloLoop(h, sim, draws, k) ==
  IF ~LoopContinues(h, sim)
    THEN IF k > Len(draws) THEN FinishStep(h, sim).sim.result ELSE Diverged
  ELSE IF k > Len(draws) \/ draws[k][1] \notin Randoms(h, sim) THEN Diverged
  ELSE LET started == StartQuestStep(h, sim, draws[k][1], draws[k][2])
           resolved == ResolveQuestStep(started.heap, started.sim)
       IN SoloLoop(resolved.heap, resolved.sim, draws, k + 1)

\* the result of createSimulation for the same request, rows and draws when
\* no other call is in flight; Diverged if the draws do not fit such a run
SoloResult(sim) ==
  LET alloc == AllocPartial(<<>>, sim.body, <<>>)
      request == [sim.request EXCEPT !.initial_state = alloc.partial]
      created == CreateSimulationStep(alloc.heap,
                   NewSim(request, sim.body, sim.quests, sim.characters))
      entered == RunSimulationStep(created.heap, created.sim)
  IN SoloLoop(entered.heap, entered.sim, sim.draws, 1)

\* C20: when the simulations of a batch run concurrently, interleaved at
\* their await points, each run's result equals the result the same run
\* produces alone with the same random draws.
C20_BatchRunsIndependent ==
  \A r \in DOMAIN sims :
    sims[r].pc = "done" => sims[r].result = SoloResult(sims[r])

\* two runs of a batch have returned, each after the other had started, and
\* their results differ
C20_Witness ==
  /\ Len(sims) >= 2
  /\ sims[1].pc = "done" /\ sims[2].pc = "done"
  /\ sims[1].result.completed_quests # <<>>
  /\ sims[2].result.failed_quests # <<>>
  /\ sims[1].result.final_state.stats # sims[2].result.final_state.stats

(***************************************************************************)
(* Further properties of whole-graph validation (Spec).                    *)
(***************************************************************************)
\* the node lies on a directed cycle of the outgoing adjacency
OnDirectedCycle(g, n) == n \in Closure(g, Succ(g, n))

\* C21: every circular_dependency error names a node that lies on a directed
\* cycle of the graph; no error names a node that merely leads into a cycle.
C21_CycleErrorNamesCycleNode ==
  result.status = "ok" =>
    \A i \in DOMAIN result.errors :
      result.errors[i].type = "circular_dependency" =>
        OnDirectedCycle(Graph, result.errors[i].nodeId)

\* outcomes of the quests that name a next quest
RECURSIVE OutcomeLinks(_)
OutcomeLinks(qs) ==
  IF qs = <<>> THEN 0
  ELSE Cardinality({i \in DOMAIN Head(qs).outcomes :
                      Head(qs).outcomes[i].nextQuestId # NULL})
       + OutcomeLinks(Tail(qs))

\* belongs-to, prerequisite and outcome relationships of the input records
RelationshipCount ==
  CountSet(quests, "storyArcId") + CountSet(dialogues, "questId")
  + SumLen(quests, "prerequisites") + OutcomeLinks(quests)

\* C22: buildGraph keeps one edge per relationship record, also for distinct
\* relationships with the same source and target, so summary.totalEdges is
\* the number of belongs-to, prerequisite and outcome relationships.
C22_OneEdgePerRelationship ==
  result.status = "ok" =>
    /\ result.summary.totalEdges = RelationshipCount
    /\ Len(Graph.edgeOrder) = RelationshipCount

\* C23: summary.orphanNodes, unreachableNodes, brokenChains and
\* circularDependencies each equal the number of findings of that type in
\* errors and warnings together, and totalNodes is the number of nodes.
C23_SummaryCountsFindings ==
  result.status = "ok" =>
    /\ result.summary.orphanNodes = NumOfType(Findings, "orphan")
    /\ result.summary.unreachableNodes = NumOfType(Findings, "unreachable")
    /\ result.summary.brokenChains = NumOfType(Findings, "broken_chain")
    /\ result.summary.circularDependencies
         = NumOfType(Findings, "circular_dependency")
    /\ result.summary.totalNodes = Cardinality(DOMAIN Graph.nodes)

\* no prerequisite entry names a story arc
NoArcPrerequisite ==
  \A i \in DOMAIN quests : \A j \in DOMAIN quests[i].prerequisites :
    quests[i].prerequisites[j].id \notin Ids(storyArcs)

OwnsQuest(arcId) == \E i \in DOMAIN quests : quests[i].storyArcId = arcId

\* C25: when no prerequisite id names a story arc, no story arc has an
\* outgoing connection, so every quest, every dialogue and every story arc
\* that owns a quest is reported unreachable, and a project with at least one
\* quest or dialogue gets isValid = false and exportReady = false.
C25_EveryQuestUnreachable ==
  (result.status = "ok" /\ NoArcPrerequisite) =>
    /\ \A n \in DOMAIN Graph.nodes :
         /\ Graph.nodes[n].type = "story_arc" => Graph.nodes[n].outgoing = <<>>
         /\ (\/ Graph.nodes[n].type \in {"quest", "dialogue"}
             \/ Graph.nodes[n].type = "story_arc" /\ OwnsQuest(n))
              => NumFindings(result.errors, "unreachable", n) = 1
    /\ (quests # <<>> \/ dialogues # <<>>) =>
         ~result.isValid /\ ~result.exportReady

\* a story arc with a quest that has a quest prerequisite, and a dialogue
C25_Witness ==
  /\ result.status = "ok"
  /\ NoArcPrerequisite
  /\ \E i \in DOMAIN quests :
       /\ quests[i].storyArcId \in Ids(storyArcs)
       /\ \E j \in DOMAIN quests[i].prerequisites :
            quests[i].prerequisites[j].id \in Ids(quests)
  /\ dialogues # <<>>
  /\ ~result.isValid
  /\ NumOfType(result.errors, "unreachable") = Len(quests) + Len(dialogues) + 1

FactionOf(character) ==
  IF character.faction = "" THEN "neutral" ELSE character.faction

\* sum of the scaled changes of the involved characters of one faction
RECURSIVE FactionGain(_, _, _)
FactionGain(quest, characters, faction) ==
  IF characters = <<>> THEN 0
  ELSE (IF IsInvolved(quest, Head(characters))
           /\ FactionOf(Head(characters)) = faction
          THEN ReputationGain(Head(characters)) ELSE 0)
       + FactionGain(quest, Tail(characters), faction)

InvolvedFactions(quest, characters) ==
  {FactionOf(characters[i]) :
     i \in {j \in 1..Len(characters) : IsInvolved(quest, characters[j])}}

\* C24: on a completed quest the reputation delta applied to a faction is
\* the sum of the scaled changes of all involved characters of that faction
\* (the result clamped to [-100, 100]); two involved characters of one
\* faction both contribute.
C24_ReputationDeltaIsSum ==
  [][\A r \in DOMAIN sims :
       (Resolves(r) /\ sims[r].questResult.completed) =>
         LET quest == sims[r].selectedQuest
             old == Player(r).reputation
             new == Player(r)'.reputation
         IN \A f \in InvolvedFactions(quest, sims[r].characters) :
              /\ f \in DOMAIN new
              /\ new[f] = Clamp((IF f \in DOMAIN old THEN old[f] ELSE 0)
                                + FactionGain(quest, sims[r].characters, f))]_vars

\* the events a step of run r appends to the log
NewEvents(r) ==
  SubSeq(sims[r].events', Len(sims[r].events) + 1, Len(sims[r].events'))

\* the alignment deltas a step of run r records
RecordedAlignmentChanges(r) ==
  LET recorded == SelectSeq(NewEvents(r), LAMBDA e : e.type = "alignment_change")
  IN [i \in 1..Len(recorded) |-> recorded[i].data.changes]

Iterations(sim) == Len(StartedQuests(sim))

\* steps the call can still take, at most: two per quest not yet attempted
\* (start, resolve) and the steps that lead from its position to the return
StepsLeft(sim) ==
  2 * (Len(sim.quests) - Iterations(sim))
    + CASE sim.pc = "created" -> 3
        [] sim.pc = "fetching" -> 2
        [] sim.pc = "awaiting" -> 2
        [] sim.pc = "loop" -> 1
        [] sim.pc = "done" -> 0

\* C28: the simulation loop terminates after at most as many iterations as
\* there are quests, whatever max_duration is: the loop goes on only while a
\* quest is left to attempt, every step brings the return closer, and every
\* iteration moves exactly one quest out of not_started for good.
C28_LoopTerminates ==
  /\ [](\A r \in DOMAIN sims :
          /\ Iterations(sims[r]) <= Len(sims[r].quests)
          /\ StepsLeft(sims[r]) >= 0
          /\ sims[r].pc = "loop" =>
               IF LoopContinues(heap, sims[r])
                 THEN /\ Randoms(heap, sims[r]) # {}
                      /\ Iterations(sims[r]) < Len(sims[r].quests)
                 ELSE TRUE
          /\ Running(sims[r]) =>
               Iterations(sims[r])
                 = Cardinality({id \in QuestIds(sims[r]) :
                                  QuestStatus(r, id) # "not_started"}))
  /\ [][\A r \in DOMAIN sims :
          /\ sims[r].pc' # sims[r].pc => StepsLeft(sims[r])' < StepsLeft(sims[r])
          /\ Starts(r) => Iterations(sims[r])' = Iterations(sims[r]) + 1]_vars

\* a run that has returned after as many iterations as it has quests
C28_Witness ==
  \E r \in DOMAIN sims :
    /\ sims[r].pc = "done"
    /\ Len(sims[r].quests) = 2
    /\ Iterations(sims[r]) = 2
    /\ sims[r].request.max_duration = UNDEFINED

\* positions in the log of the events of one type about one quest
EventsAbout(sim, type, id) ==
  {i \in 1..Len(sim.events) :
     sim.events[i].type = type /\ sim.events[i].data.quest_id = id}

QuestEvents(sim, type) ==
  {i \in 1..Len(sim.events) : sim.events[i].type = type}

\* the quests the run has finished attempting
Attempted(sim) ==
  {sim.completedQuests[i] : i \in 1..Len(sim.completedQuests)}
    \cup {sim.failedQuests[i] : i \in 1..Len(sim.failedQuests)}

\* C29: between two iterations and at the return, the event log holds for
\* every attempted quest exactly one quest_start and exactly one
\* quest_complete, the start before the completion with no quest_start of
\* another quest between them, and as many quest_complete events as
\* completed_quests and failed_quests have entries together.
C29_EventLogPairsStartAndComplete ==
  \A r \in DOMAIN sims :
    sims[r].pc \in {"loop", "done"} =>
      LET sim == sims[r]
      IN /\ Attempted(sim) = {StartedQuests(sim)[i] : i \in 1..Iterations(sim)}
         /\ \A id \in Attempted(sim) :
              /\ Cardinality(EventsAbout(sim, "quest_start", id)) = 1
              /\ Cardinality(EventsAbout(sim, "quest_complete", id)) = 1
              /\ \A s \in EventsAbout(sim, "quest_start", id),
                    c \in EventsAbout(sim, "quest_complete", id) :
                   /\ s < c
                   /\ \A i \in QuestEvents(sim, "quest_start") : ~(s < i /\ i < c)
         /\ Cardinality(QuestEvents(sim, "quest_complete"))
              = Len(sim.completedQuests) + Len(sim.failedQuests)
         /\ sim.pc = "done" => sim.result.events = sim.events

\* a returned run that attempted two quests, one completed and one failed
C29_Witness ==
  \E r \in DOMAIN sims :
    /\ sims[r].pc = "done"
    /\ Len(sims[r].completedQuests) = 1
    /\ Len(sims[r].failedQuests) = 1
    /\ Cardinality(QuestEvents(sims[r], "quest_complete")) = 2

\* C30: a quest that resolves as failed leaves the player's alignment, level,
\* health and mana as they were before the quest, whatever the initial state
\* (default or overridden by the caller).
C30_FailedQuestKeepsAlignmentAndVitals ==
  [][\A r \in DOMAIN sims :
       Resolves(r) /\ ~sims[r].questResult.completed =>
         /\ Player(r)'.alignment = Player(r).alignment
         /\ Player(r)'.stats.level = Player(r).stats.level
         /\ Player(r)'.stats.health = Player(r).stats.health
         /\ Player(r)'.stats.mana = Player(r).stats.mana]_vars
====
